---- MODULE Spec2Model ----
(***************************************************************************)
(* Model of eotd.py: the Emoji-of-the-Day agent.  The program starts in    *)
(* __main__, picks a display driver, enters it, clears it, builds the      *)
(* EmojiOfTheDay object (two layouts) and runs the polling loop of         *)
(* EmojiOfTheDay.run.  One loop iteration is one action (Iterate); the     *)
(* sleep that ends the iteration is the action Sleep.  The answers of the  *)
(* network and of the image codec are inputs of an iteration.              *)
(***************************************************************************)
EXTENDS Integers, Sequences, FiniteSets, TLC

VARIABLES
    pc,             \* "main", "loop" (top of the while body), "sleep", "terminated"
    display_arg,    \* args.display
    driver,         \* the display backend: kind, opened, cleared, closed
    shown,          \* the bitmap most recently passed to Display.show
    error,          \* run(): local error
    info,           \* run(): local info
    layout,         \* self._layout.components
    error_layout,   \* self._error_layout.components
    resp,           \* last pass: the answer of the info API
    plan,           \* last pass: the answers of the emoji CDN for the slots a, b, c
    events,         \* last pass: the calls made, in order
    raised,         \* last pass: the exception that left the try block, if any
    hist            \* was_error, differed: error and (info # answer) at the start of
                    \* the last pass; fetched: some pass so far got an answer decoded

vars == <<pc, display_arg, driver, shown, error, info, layout, error_layout,
          resp, plan, events, raised, hist>>

----------------------------------------------------------------------------
(* Bounds of the input space *)

NumMessages == 2    \* message strings the info API may send

(* Emoji names the info API may send: one that is in the emoji table and   *)
(* one that is not                                                         *)
KnownNames == {"dog"}
Names == KnownNames \cup {"nosuch"}
Messages == {"msg" \o ToString(i) : i \in 1..NumMessages}

(* emoji.unicode_codes.EMOJI_UNICODE_ENGLISH: name -> character *)
EMOJI_UNICODE_ENGLISH == [n \in KnownNames |-> "U+1F436"]

Keys == {"a", "b", "c", "message"}
Slots == <<"a", "b", "c">>

(* JSON values the info API may send.  FullDicts: the objects with all    *)
(* four keys, every choice of names and message.  PartialDicts: the        *)
(* objects with a key missing, one for each proper subset of the keys      *)
(* (the program reads no value of such an object).  JsonList: a value that *)
(* is not an object.                                                       *)
ValueOk(k, v) == IF k = "message" THEN v \in Messages ELSE v \in Names
FullDicts == {f \in [Keys -> Names \cup Messages] : \A k \in Keys : ValueOk(k, f[k])}
PartialDicts == {[k \in K |-> IF k = "message" THEN "msg1" ELSE "dog"] :
                   K \in (SUBSET Keys) \ {Keys}}
Dicts == FullDicts \cup PartialDicts
EmptyDict == [k \in {} |-> ""]
Dict(d) == [type |-> "object", fields |-> d]
JsonList == [type |-> "array", fields |-> EmptyDict]
Payloads == {Dict(d) : d \in Dicts} \cup {JsonList}

(* The answer of the info API to one GET: the request raises (transport    *)
(* error, or raise_for_status on a non-success status), the body is not    *)
(* JSON, or the body decodes to a JSON value.                              *)
Failure(kind) == [type |-> kind, fields |-> EmptyDict]
InfoFailures == {Failure("http_error"), Failure("bad_json")}
InfoAnswers == InfoFailures \cup Payloads
NoAnswer == Failure("none")

(* The answer of the emoji CDN to one GET: the request raises as above, or *)
(* a body is served with a success status ("ok" when PIL can open it,      *)
(* "undecodable" when it cannot).                                          *)
ImageAnswers == {"ok", "http_error", "undecodable"}
(* The answers to the three image requests of one iteration, for the      *)
(* slots a, b, c.  A slot's answer is never asked for when the info answer *)
(* is not an object with the four keys, when the slot's name is not in the *)
(* emoji table, or when an earlier slot has failed (its name is not in the *)
(* table or its answer is not "ok"); such an answer is fixed to "ok".      *)
Asked(ans, f, i) ==
    /\ ans.type = "object" /\ DOMAIN ans.fields = Keys
    /\ ans.fields[Slots[i]] \in DOMAIN EMOJI_UNICODE_ENGLISH
    /\ \A j \in 1..(i - 1) :
          ans.fields[Slots[j]] \in DOMAIN EMOJI_UNICODE_ENGLISH /\ f[j] = "ok"
AllOk == [i \in 1..3 |-> "ok"]
PlansFor(ans) == {f \in [1..3 -> ImageAnswers] :
                    \A i \in 1..3 : f[i] # "ok" => Asked(ans, f, i)}

----------------------------------------------------------------------------
(* Results of calls: a value, the domain exception, or any other exception *)

Ev(by, op, arg) == [by |-> by, op |-> op, arg |-> arg]

Exc(type, msg) == [type |-> type, msg |-> msg]
NoExc == Exc("", "")

Return(v, ev) == [exc |-> NoExc, value |-> v, events |-> ev]
Raise(type, msg, ev) == [exc |-> Exc(type, msg), value |-> "", events |-> ev]

----------------------------------------------------------------------------
(* einkd.gui: components and windows *)

ImageComponent(name, cx, cy, image) ==
    [name |-> name, kind |-> "image", cell_x |-> cx, cell_y |-> cy, content |-> image]
TextComponent(name, cy, text) ==
    [name |-> name, kind |-> "text", cell_y |-> cy, content |-> text]

BlankImage == "Image.new(1,(100,100))"

(* Window.draw(): every component rendered at its grid position *)
Render(c) == IF c.kind = "image" THEN <<"paste", c.content>> ELSE <<"text", c.content>>
draw(components) == [p \in DOMAIN components |-> Render(components[p])]
NothingShown == [p \in {} |-> ""]

(* self._layout and self._error_layout as __init__ builds them *)
InitLayout ==
    [p \in {<<0, 0>>, <<4, 0>>, <<8, 0>>, <<0, 10>>} |->
        CASE p = <<0, 0>> -> ImageComponent("a", 4, 10, BlankImage)
          [] p = <<4, 0>> -> ImageComponent("b", 4, 10, BlankImage)
          [] p = <<8, 0>> -> ImageComponent("c", 4, 10, BlankImage)
          [] p = <<0, 10>> -> TextComponent("message", 2, "")]
InitErrorLayout ==
    [p \in {<<0, 0>>, <<0, 6>>} |->
        CASE p = <<0, 0>> -> TextComponent("message", 6, "An error occurred.")
          [] p = <<0, 6>> -> TextComponent("error", 6, "Unknown")]

SetContent_recreates(components, p, v) ==
    [components EXCEPT ![p] = [components[p] EXCEPT !.content = v, !.cell_y = 1]]

SetContent(components, p, v) ==
    [components EXCEPT ![p] = [components[p] EXCEPT !.content = v]]

----------------------------------------------------------------------------
(* EmojiOfTheDay.get_info *)
get_info(ans) ==
    IF ans.type \in {"object", "array"}
    THEN Return(ans, <<Ev("get_info", "requests.get", "eotd_api")>>)
    ELSE Raise("EOTDException", "Unable to fetch from API",
               <<Ev("get_info", "requests.get", "eotd_api")>>)

(* EmojiOfTheDay.get_image: the style parameter is not used, the URL       *)
(* always asks for the apple style                                         *)
CdnImages == [n \in KnownNames |->
                "image(emojicdn.elk.sh/" \o EMOJI_UNICODE_ENGLISH[n] \o "?style=apple)"]
UnknownEmoji == [n \in Names |-> "Unknown emoji: " \o n]
get_image_falls_back_to_name(emoji, ans) ==
    LET called == <<Ev("display_emoji", "get_image", emoji)>>
        emoji_char == IF emoji \in DOMAIN EMOJI_UNICODE_ENGLISH
                      THEN EMOJI_UNICODE_ENGLISH[emoji] ELSE emoji
        asked == called \o <<Ev("get_image", "requests.get", emoji_char)>>
    IN  IF ans = "http_error"
        THEN Raise("EOTDException", "Error when contacting emoji API.", asked)
        ELSE IF ans = "undecodable"
        THEN Raise("UnidentifiedImageError", "cannot identify image file",
                   asked \o <<Ev("get_image", "Image.open", emoji_char)>>)
        ELSE Return("image(emojicdn.elk.sh/" \o emoji_char \o "?style=apple)",
                    asked \o <<Ev("get_image", "Image.open", emoji_char)>>)

get_image_retries(emoji, ans) ==
    LET called == <<Ev("display_emoji", "get_image", emoji)>> IN
    IF emoji \notin DOMAIN EMOJI_UNICODE_ENGLISH
    THEN Raise("EOTDException", UnknownEmoji[emoji], called)
    ELSE LET emoji_char == EMOJI_UNICODE_ENGLISH[emoji]
             asked == called \o <<Ev("get_image", "requests.get", emoji_char)>>
         IN  IF ans = "http_error"
             THEN Raise("EOTDException", "Error when contacting emoji API.",
                        asked \o <<Ev("get_image", "requests.get", emoji_char)>>)
             ELSE IF ans = "undecodable"
             THEN Raise("UnidentifiedImageError", "cannot identify image file",
                        asked \o <<Ev("get_image", "Image.open", emoji_char)>>)
             ELSE Return(CdnImages[emoji],
                         asked \o <<Ev("get_image", "Image.open", emoji_char)>>)

get_image_blank_on_error(emoji, ans) ==
    LET called == <<Ev("display_emoji", "get_image", emoji)>> IN
    IF emoji \notin DOMAIN EMOJI_UNICODE_ENGLISH
    THEN Raise("EOTDException", UnknownEmoji[emoji], called)
    ELSE LET emoji_char == EMOJI_UNICODE_ENGLISH[emoji]
             asked == called \o <<Ev("get_image", "requests.get", emoji_char)>>
         IN  IF ans = "http_error"
             THEN Return(BlankImage, asked)
             ELSE IF ans = "undecodable"
             THEN Raise("UnidentifiedImageError", "cannot identify image file",
                        asked \o <<Ev("get_image", "Image.open", emoji_char)>>)
             ELSE Return(CdnImages[emoji],
                         asked \o <<Ev("get_image", "Image.open", emoji_char)>>)

get_image(emoji, ans) ==
    LET called == <<Ev("display_emoji", "get_image", emoji)>> IN
    IF emoji \notin DOMAIN EMOJI_UNICODE_ENGLISH
    THEN Raise("EOTDException", UnknownEmoji[emoji], called)
    ELSE LET emoji_char == EMOJI_UNICODE_ENGLISH[emoji]
             asked == called \o <<Ev("get_image", "requests.get", emoji_char)>>
         IN  IF ans = "http_error"
             THEN Raise("EOTDException", "Error when contacting emoji API.", asked)
             ELSE IF ans = "undecodable"
             THEN Raise("UnidentifiedImageError", "cannot identify image file",
                        asked \o <<Ev("get_image", "Image.open", emoji_char)>>)
             ELSE Return(CdnImages[emoji],
                         asked \o <<Ev("get_image", "Image.open", emoji_char)>>)

(* EmojiOfTheDay.display_emoji: the exception raised if any, the           *)
(* components as the call leaves them, and the bitmaps it passed to        *)
(* Display.show                                                            *)
Outcome(exc, ev, components, shows) ==
    [exc |-> exc, events |-> ev, components |-> components, shows |-> shows]

(* display_emoji, the try block that reads the four values: subscripting   *)
(* a value that is not an object raises TypeError, which the except clause *)
(* does not catch; a missing key raises KeyError, which it turns into an   *)
(* EOTDException.                                                          *)
unpack_uncaught_KeyError(inf) ==
    IF inf.type # "object"
    THEN Exc("TypeError", "indices must be integers")
    ELSE IF ~(Keys \subseteq DOMAIN inf.fields)
    THEN Exc("KeyError", "missing key")
    ELSE NoExc

unpack_names_key(inf) ==
    IF inf.type # "object"
    THEN Exc("TypeError", "indices must be integers")
    ELSE IF ~(Keys \subseteq DOMAIN inf.fields)
    THEN Exc("EOTDException", CHOOSE k \in Keys \ DOMAIN inf.fields : TRUE)
    ELSE NoExc

unpack(inf) ==
    IF inf.type # "object"
    THEN Exc("TypeError", "indices must be integers")
    ELSE IF ~(Keys \subseteq DOMAIN inf.fields)
    THEN Exc("EOTDException", "Unable to find all values in JSON.")
    ELSE NoExc

display_emoji_no_refresh(inf, components, answers) ==
    LET called == <<Ev("run", "display_emoji", "")>> IN
    IF unpack(inf) # NoExc
    THEN Outcome(unpack(inf), called, components, <<>>)
    ELSE
    LET ra == get_image(inf.fields["a"], answers[1]) IN
    IF ra.exc # NoExc
    THEN Outcome(ra.exc, called \o ra.events, components, <<>>)
    ELSE
    LET c1 == SetContent(components, <<0, 0>>, ra.value)
        rb == get_image(inf.fields["b"], answers[2]) IN
    IF rb.exc # NoExc
    THEN Outcome(rb.exc, called \o ra.events \o rb.events, c1, <<>>)
    ELSE
    LET c2 == SetContent(c1, <<4, 0>>, rb.value)
        rc == get_image(inf.fields["c"], answers[3]) IN
    IF rc.exc # NoExc
    THEN Outcome(rc.exc, called \o ra.events \o rb.events \o rc.events, c2, <<>>)
    ELSE
    LET c3 == SetContent(c2, <<8, 0>>, rc.value)
        c4 == SetContent(c3, <<0, 10>>, inf.fields["message"])
    IN  Outcome(NoExc,
                called \o ra.events \o rb.events \o rc.events
                    \o <<Ev("display_emoji", "show", "_layout")>>,
                c4, <<draw(c4)>>)

display_emoji(inf, components, answers) ==
    LET called == <<Ev("run", "display_emoji", "")>> IN
    IF unpack(inf) # NoExc
    THEN Outcome(unpack(inf), called, components, <<>>)
    ELSE
    LET ra == get_image(inf.fields["a"], answers[1]) IN
    IF ra.exc # NoExc
    THEN Outcome(ra.exc, called \o ra.events, components, <<>>)
    ELSE
    LET c1 == SetContent(components, <<0, 0>>, ra.value)
        rb == get_image(inf.fields["b"], answers[2]) IN
    IF rb.exc # NoExc
    THEN Outcome(rb.exc, called \o ra.events \o rb.events, c1, <<>>)
    ELSE
    LET c2 == SetContent(c1, <<4, 0>>, rb.value)
        rc == get_image(inf.fields["c"], answers[3]) IN
    IF rc.exc # NoExc
    THEN Outcome(rc.exc, called \o ra.events \o rb.events \o rc.events, c2, <<>>)
    ELSE
    LET c3 == SetContent(c2, <<8, 0>>, rc.value)
        c4 == SetContent(c3, <<0, 10>>, inf.fields["message"])
    IN  Outcome(NoExc,
                called \o ra.events \o rb.events \o rc.events
                    \o <<Ev("display_emoji", "show", "_layout"),
                         Ev("display_emoji", "refresh", "")>>,
                c4, <<draw(c4)>>)

(* EmojiOfTheDay._display_error *)
_display_error_keeps_text(e, components) ==
    Outcome(NoExc,
            <<Ev("run", "_display_error", e.msg),
              Ev("_display_error", "show", "_error_layout"),
              Ev("_display_error", "refresh", "")>>,
            components, <<draw(components)>>)

_display_error(e, components) ==
    LET c == SetContent(components, <<0, 6>>, e.msg)
    IN  Outcome(NoExc,
                <<Ev("run", "_display_error", e.msg),
                  Ev("_display_error", "show", "_error_layout"),
                  Ev("_display_error", "refresh", "")>>,
                c, <<draw(c)>>)

(* EmojiOfTheDay.run: one pass through the body of the while loop, up to   *)
(* the sleep.  exc is the exception that left the try block; the pass      *)
(* reaches the sleep unless that exception is not an EOTDException.        *)
Pass(exc, err, inf, lay, errlay, shows, ev) ==
    [exc |-> exc, error |-> err, info |-> inf, layout |-> lay,
     error_layout |-> errlay, shows |-> shows, events |-> ev]

except_always_displays(e, err, inf, lay, errlay, ev) ==
    LET d == _display_error(e, errlay)
    IN  Pass(e, TRUE, inf, lay, d.components, d.shows, ev \o d.events)

except_forgets_flag(e, err, inf, lay, errlay, ev) ==
    IF ~err
    THEN LET d == _display_error(e, errlay)
         IN  Pass(e, err, inf, lay, d.components, d.shows, ev \o d.events)
    ELSE Pass(e, err, inf, lay, errlay, <<>>, ev)

except_EOTDException(e, err, inf, lay, errlay, ev) ==
    IF ~err
    THEN LET d == _display_error(e, errlay)
         IN  Pass(e, TRUE, inf, lay, d.components, d.shows, ev \o d.events)
    ELSE Pass(e, err, inf, lay, errlay, <<>>, ev)

(* run, the test that decides whether to redraw *)
changed_always(inf, new_info, err) == TRUE
changed_ignores_error(inf, new_info, err) == inf # new_info

changed(inf, new_info, err) == inf # new_info \/ err

run(err, inf, lay, errlay, ans, answers) ==
    LET r == get_info(ans) IN
    IF r.exc # NoExc
    THEN except_EOTDException(r.exc, err, inf, lay, errlay, r.events)
    ELSE
    LET new_info == r.value IN
    IF changed(inf, new_info, err)
    THEN LET d == display_emoji(new_info, lay, answers) IN
         CASE d.exc = NoExc ->
                Pass(NoExc, FALSE, new_info, d.components, errlay, d.shows,
                     r.events \o d.events)
           [] d.exc.type = "EOTDException" ->
                except_EOTDException(d.exc, err, new_info, d.components, errlay,
                                     r.events \o d.events)
           [] OTHER ->
                Pass(d.exc, err, new_info, d.components, errlay, <<>>, r.events \o d.events)
    ELSE Pass(NoExc, FALSE, inf, lay, errlay, <<>>, r.events)

----------------------------------------------------------------------------
(* The program *)

Init ==
    /\ pc = "main"
    /\ display_arg \in {"epd2in13", "tk"}
    /\ driver = [kind |-> "none", entered |-> FALSE, cleared |-> FALSE, exited |-> FALSE]
    /\ shown = NothingShown
    /\ error = FALSE
    /\ info = Dict(EmptyDict)
    /\ layout = InitLayout
    /\ error_layout = InitErrorLayout
    /\ resp = NoAnswer
    /\ plan = AllOk
    /\ events = <<>>
    /\ raised = NoExc
    /\ hist = [was_error |-> FALSE, differed |-> FALSE, fetched |-> FALSE]

(* __main__: choose the driver, enter it, clear it, build the agent, and   *)
(* call run.  The epd2in13 branch binds the name driverr, so the name      *)
(* driver is unbound at the with statement and the program ends with a     *)
(* NameError before any driver is entered.                                 *)
Main ==
    /\ pc = "main"
    /\ IF display_arg = "tk"
       THEN /\ driver' = [kind |-> "TkinterDriver", entered |-> TRUE, cleared |-> TRUE,
                          exited |-> FALSE]
            /\ pc' = "loop"
            /\ raised' = NoExc
       ELSE /\ driver' = driver
            /\ pc' = "terminated"
            /\ raised' = Exc("NameError", "name 'driver' is not defined")
    /\ error' = FALSE
    /\ info' = Dict(EmptyDict)
    /\ layout' = InitLayout
    /\ error_layout' = InitErrorLayout
    /\ UNCHANGED <<display_arg, shown, resp, plan, events, hist>>

(* One pass of the while loop of run.  An exception that leaves run leaves *)
(* the with block, which exits the driver, and ends the program.           *)
Iterate ==
    /\ pc = "loop"
    /\ \E ans \in InfoAnswers : \E answers \in PlansFor(ans) :
       \E p \in {run(error, info, layout, error_layout, ans, answers)} :
         /\ resp' = ans
         /\ plan' = answers
         /\ events' = p.events
         /\ raised' = p.exc
         /\ hist' = [was_error |-> error,
                     differed |-> (ans.type \in {"object", "array"} /\ ans # info),
                     fetched |-> (hist.fetched \/ ans.type \in {"object", "array"})]
         /\ error' = p.error
         /\ info' = p.info
         /\ layout' = p.layout
         /\ error_layout' = p.error_layout
         /\ shown' = IF p.shows = <<>> THEN shown ELSE p.shows[Len(p.shows)]
         /\ IF p.exc.type \in {"", "EOTDException"}
            THEN pc' = "sleep" /\ driver' = driver
            ELSE pc' = "terminated" /\ driver' = [driver EXCEPT !.exited = TRUE]
    /\ UNCHANGED display_arg

(* sleep(self._poll_interval), then the next pass *)
Sleep ==
    /\ pc = "sleep"
    /\ pc' = "loop"
    /\ UNCHANGED <<display_arg, driver, shown, error, info, layout, error_layout,
                   resp, plan, events, raised, hist>>

Next == Main \/ Iterate \/ Sleep

Spec == Init /\ [][Next]_vars

(* The loop is scheduled forever: a pass that has started ends (in the     *)
(* sleep or in an exception) and a sleep returns.  Under Spec the steps    *)
(* that leave the loop head are the Iterate steps and the steps that leave *)
(* the sleep are the Sleep steps, so the fairness is stated on the control *)
(* point.                                                                  *)
PassEnds == pc = "loop" /\ pc' \in {"sleep", "terminated"}
SleepReturns == pc = "sleep" /\ pc' = "loop"
FairSpec == Spec /\ WF_pc(PassEnds) /\ WF_pc(SleepReturns)

TypeOK ==
    /\ pc \in {"main", "loop", "sleep", "terminated"}
    /\ error \in BOOLEAN
    /\ info \in Payloads
    /\ resp \in InfoAnswers \cup {NoAnswer}

----------------------------------------------------------------------------
(* Vocabulary of the properties *)

IsPayload(ans) == ans.type \in {"object", "array"}
Valid(ans) == ans.type = "object" /\ DOMAIN ans.fields = Keys
MissingKey(ans) == ans.type = "object" /\ DOMAIN ans.fields # Keys
(* every image resolution of a pass with this answer and these CDN answers *)
(* succeeds                                                                *)
Resolvable(ans, answers) ==
    /\ Valid(ans)
    /\ \A i \in 1..3 : ans.fields[Slots[i]] \in KnownNames /\ answers[i] = "ok"

NumCalls(ev, op) == Cardinality({i \in 1..Len(ev) : ev[i].op = op})
NumCallsBy(ev, by) == Cardinality({i \in 1..Len(ev) : ev[i].by = by})
NoBackendCall(ev) == NumCalls(ev, "show") = 0 /\ NumCalls(ev, "refresh") = 0
OneRedraw(ev) == NumCalls(ev, "show") = 1 /\ NumCalls(ev, "refresh") = 1
RenderCycleRun(ev) == NumCalls(ev, "display_emoji") = 1
ValidationFailure == Exc("EOTDException", "Unable to find all values in JSON.")

(* The main layout as a Render Cycle on snapshot s leaves it *)
LayoutOf(s) ==
    [p \in DOMAIN InitLayout |->
        [InitLayout[p] EXCEPT !.content =
            CASE p = <<0, 0>> -> CdnImages[s.fields["a"]]
              [] p = <<4, 0>> -> CdnImages[s.fields["b"]]
              [] p = <<8, 0>> -> CdnImages[s.fields["c"]]
              [] p = <<0, 10>> -> s.fields["message"]]]
ResolvableSnapshots == {s \in Payloads : Resolvable(s, AllOk)}

----------------------------------------------------------------------------
(* C1: change detection.  When two consecutive passes fetch the same valid *)
(* snapshot with every image resolution succeeding, and the snapshot       *)
(* differed from the stored one at the start of the first, show and        *)
(* refresh are each called exactly once in the first pass and not at all   *)
(* in the second; and a pass that starts with the error flag clear and     *)
(* fetches a snapshot equal to the stored one calls neither show nor       *)
(* refresh and resolves no image.                                          *)
C1_ChangeDetection ==
    [][pc = "loop" =>
        /\ (Resolvable(resp, plan) /\ hist.differed /\ resp' = resp /\ Resolvable(resp', plan'))
              => (OneRedraw(events) /\ NoBackendCall(events'))
        /\ (~error /\ resp' = info)
              => (NoBackendCall(events') /\ NumCalls(events', "get_image") = 0
                  /\ ~RenderCycleRun(events') /\ shown' = shown)]_vars

C1_Witness ==
    /\ pc = "sleep" /\ ~hist.was_error /\ ~hist.differed
    /\ Resolvable(resp, plan) /\ resp = info
    /\ NoBackendCall(events) /\ shown = draw(LayoutOf(resp))

(* C2: error de-duplication.  A failed pass (an EOTDException left the try *)
(* block) that follows a failed pass makes no show or refresh call and     *)
(* does not call _display_error; a failed pass that does not follow a      *)
(* failed pass calls _display_error, show and refresh exactly once each.   *)
C2_ErrorDedup ==
    [][(pc = "loop" /\ raised'.type = "EOTDException") =>
        IF raised.type = "EOTDException"
        THEN NoBackendCall(events') /\ NumCalls(events', "_display_error") = 0
             /\ shown' = shown
        ELSE OneRedraw(events') /\ NumCalls(events', "_display_error") = 1]_vars

C2_Witness ==
    /\ pc = "sleep" /\ hist.was_error /\ error
    /\ raised.type = "EOTDException" /\ NoBackendCall(events)
    /\ shown = draw(error_layout)

(* C3: recovery.  A pass that starts with the error flag set and whose     *)
(* fetch succeeds runs the Render Cycle whatever the snapshot; when the    *)
(* Render Cycle succeeds there is exactly one show and one refresh and the *)
(* error flag is cleared.                                                  *)
C3_Recovery ==
    [][(pc = "loop" /\ error /\ IsPayload(resp')) =>
        /\ RenderCycleRun(events')
        /\ raised' = NoExc => (OneRedraw(events') /\ ~error'
                               /\ shown' = draw(LayoutOf(resp')))]_vars

C3_Witness ==
    /\ pc = "sleep" /\ hist.was_error /\ ~hist.differed
    /\ Valid(resp) /\ raised = NoExc /\ ~error
    /\ OneRedraw(events)

(* C4: no operation is fatal.  Once the loop has started the program never *)
(* terminates.                                                             *)
C4_NeverTerminates == driver.entered => pc # "terminated"

(* C5: the first pass whose fetch succeeds runs the Render Cycle whatever  *)
(* the snapshot is.                                                        *)
C5_FirstFetchRenders ==
    [][(pc = "loop" /\ ~hist.fetched /\ IsPayload(resp')) => RenderCycleRun(events')]_vars

(* C6: after a pass whose fetch succeeds with an object missing a required *)
(* key, the error flag is set and the error view is what the backend       *)
(* shows.                                                                  *)
C6_MissingKeyIsFailure ==
    (pc # "main" /\ MissingKey(resp))
        => (pc # "terminated" /\ error /\ shown = draw(error_layout))

(* C7: a Render Cycle on an object missing a required key fails with the  *)
(* validation failure, makes no show or refresh call of its own, attempts  *)
(* no image resolution and leaves the main layout as it was.               *)
C7_MissingKeyRender ==
    [][(pc = "loop" /\ MissingKey(resp') /\ RenderCycleRun(events')) =>
        /\ raised' = ValidationFailure
        /\ NumCallsBy(events', "display_emoji") = 0
        /\ NumCallsBy(events', "get_image") = 0
        /\ layout' = layout]_vars

C7_Witness ==
    /\ pc = "sleep" /\ MissingKey(resp) /\ RenderCycleRun(events)
    /\ DOMAIN resp.fields = {"a", "b", "c"}
    /\ raised = ValidationFailure

(* the last pass ran the Render Cycle on a valid snapshot and one of its   *)
(* image resolutions failed                                                *)
ImageResolutionFailed ==
    RenderCycleRun(events) /\ Valid(resp) /\ ~Resolvable(resp, plan)

(* C8: every failure during image resolution (unknown name, request        *)
(* failure, image decode failure) leaves the pass as an EOTDException,     *)
(* which the Agent treats as a cycle failure: the error flag is set and    *)
(* the loop goes on.                                                       *)
C8_ImageFailureIsDomain ==
    ImageResolutionFailed => (raised.type = "EOTDException" /\ error /\ pc # "terminated")

(* C9: for a decoded payload that is not an object with the four keys, the *)
(* fetch succeeds and the pass fails at render time with the validation    *)
(* failure.                                                                *)
C9_BadShapeFailsAtRender ==
    (IsPayload(resp) /\ ~Valid(resp))
        => (RenderCycleRun(events) /\ raised = ValidationFailure)

(* Stable(s): the last pass fetched s and every image answer was good.     *)
(* Healed(s): the loop runs, the error flag is clear and the backend shows *)
(* the main layout rendered from s.                                        *)
Stable(s) == resp = s /\ plan = AllOk
Healed(s) == pc \in {"loop", "sleep"} /\ ~error /\ shown = draw(LayoutOf(s))

(* C10: self-healing.  If from some pass on every fetch returns the same   *)
(* valid snapshot S and every image resolution succeeds, then eventually   *)
(* the backend shows the main layout rendered from S with the error flag   *)
(* clear, and this stays so.                                               *)
C10_SelfHealing ==
    \A s \in ResolvableSnapshots : <>[]Stable(s) => <>[]Healed(s)

C10_Witness ==
    /\ pc = "loop" /\ hist.was_error /\ hist.differed
    /\ Resolvable(resp, plan) /\ Healed(resp)

(* The calls of a pass that fetches the snapshot s and redraws it *)
ResolveCalls(name) ==
    <<Ev("display_emoji", "get_image", name),
      Ev("get_image", "requests.get", EMOJI_UNICODE_ENGLISH[name]),
      Ev("get_image", "Image.open", EMOJI_UNICODE_ENGLISH[name])>>
RedrawCalls(s) ==
    <<Ev("get_info", "requests.get", "eotd_api"), Ev("run", "display_emoji", "")>>
        \o ResolveCalls(s.fields["a"]) \o ResolveCalls(s.fields["b"])
        \o ResolveCalls(s.fields["c"])
        \o <<Ev("display_emoji", "show", "_layout"), Ev("display_emoji", "refresh", "")>>

(* C11: a pass that fetches a valid snapshot different from the stored one *)
(* and whose three image resolutions succeed resolves exactly three        *)
(* images, for a, b and c in that order, leaves the four components with   *)
(* the content of the snapshot, calls show once and then refresh once, and *)
(* ends at the sleep with the error flag clear.                            *)
C11_RedrawOnChange ==
    [][(pc = "loop" /\ Resolvable(resp', plan') /\ resp' # info) =>
        /\ events' = RedrawCalls(resp')
        /\ NumCalls(events', "get_image") = 3
        /\ layout' = LayoutOf(resp')
        /\ shown' = draw(layout')
        /\ info' = resp'
        /\ ~error' /\ pc' = "sleep"]_vars

C11_Witness ==
    /\ pc = "sleep" /\ ~hist.was_error /\ hist.differed
    /\ Resolvable(resp, plan) /\ events = RedrawCalls(resp)
    /\ layout = LayoutOf(resp) /\ ~error

(* C12: a get_image call for a name that is not in the emoji table raises  *)
(* the lookup failure ("Unknown emoji: <name>") and is followed by no      *)
(* network request: no image request and no Image.open follows it in the   *)
(* pass.                                                                   *)
C12_LookupBeforeNetwork ==
    \A i \in 1..Len(events) :
        (events[i].op = "get_image" /\ events[i].arg \notin KnownNames) =>
            /\ raised = Exc("EOTDException", UnknownEmoji[events[i].arg])
            /\ \A j \in (i + 1)..Len(events) :
                   events[j].op \notin {"requests.get", "Image.open", "get_image"}

C12_Witness ==
    /\ pc = "sleep" /\ Valid(resp) /\ resp.fields["a"] \in KnownNames
    /\ resp.fields["b"] \notin KnownNames
    /\ NumCalls(events, "get_image") = 2
    /\ raised = Exc("EOTDException", UnknownEmoji[resp.fields["b"]])

(* C13: at every sleep point the error flag is set exactly when an         *)
(* EOTDException left the try block of the pass just completed; it is      *)
(* clear before the first pass; and whenever it is set the bitmap most     *)
(* recently shown is the error layout.                                     *)
C13_ErrorFlagTracksFailure ==
    /\ pc = "sleep" => (error <=> raised.type = "EOTDException")
    /\ (pc = "loop" /\ resp = NoAnswer) => ~error
    /\ error => shown = draw(error_layout)

C13_Witness ==
    /\ pc = "sleep" /\ error /\ ~hist.was_error
    /\ raised = Exc("EOTDException", "Error when contacting emoji API.")
    /\ shown = draw(error_layout)

(* The error layout with the description msg in its error component *)
ErrorLayoutOf(msg) == [InitErrorLayout EXCEPT ![<<0, 6>>].content = msg]

(* C14: a failed pass that starts with the error flag clear puts the       *)
(* description of its failure into the error component of the error        *)
(* layout and shows that layout once; a pass that starts with the flag set *)
(* and raises leaves the error layout and the shown bitmap as they were    *)
(* and makes no show or refresh call, whatever its description is.         *)
C14_StaticErrorScreen ==
    [][pc = "loop" =>
        /\ (~error /\ raised'.type = "EOTDException")
              => /\ error_layout' = ErrorLayoutOf(raised'.msg)
                 /\ shown' = draw(error_layout')
                 /\ NumCalls(events', "_display_error") = 1 /\ OneRedraw(events')
        /\ (error /\ raised' # NoExc)
              => /\ error_layout' = error_layout /\ shown' = shown
                 /\ shown' = draw(error_layout')
                 /\ NoBackendCall(events')]_vars

C14_Witness ==
    /\ pc = "sleep" /\ error /\ hist.was_error
    /\ raised.type = "EOTDException"
    /\ raised.msg # error_layout[<<0, 6>>].content
    /\ shown = draw(error_layout) /\ NoBackendCall(events)

(* The required keys a snapshot lacks *)
Missing(s) == Keys \ DOMAIN s.fields

(* C15 as stated: two consecutive Render Cycles that fail on snapshots     *)
(* lacking different required fields carry different descriptions.         *)
C15_DescriptionNamesField ==
    [][(/\ pc = "loop"
        /\ MissingKey(resp) /\ RenderCycleRun(events)
        /\ MissingKey(resp') /\ RenderCycleRun(events')
        /\ Missing(resp) \cap Missing(resp') = {})
          => raised'.msg # raised.msg]_vars

(* C15: a Render Cycle on a snapshot that lacks a required field fails     *)
(* with the one fixed description "Unable to find all values in JSON.",    *)
(* whichever field is missing; when the failure is the first of its run    *)
(* that fixed text is what the error view shows.                           *)
C15_FixedValidationDescription ==
    (pc = "sleep" /\ MissingKey(resp) /\ RenderCycleRun(events)) =>
        /\ raised = Exc("EOTDException", "Unable to find all values in JSON.")
        /\ error
        /\ ~hist.was_error =>
              /\ error_layout = ErrorLayoutOf("Unable to find all values in JSON.")
              /\ shown = draw(error_layout)

C15_Witness ==
    /\ pc = "sleep" /\ ~hist.was_error /\ RenderCycleRun(events)
    /\ resp.type = "object" /\ Missing(resp) = {"a"}
    /\ error_layout[<<0, 6>>].content = "Unable to find all values in JSON."
    /\ shown = draw(error_layout)

(* The network requests of a pass, and the emoji slots whose resolution    *)
(* fails with the snapshot s and the CDN answers f                         *)
Requests(ev, by) ==
    {i \in 1..Len(ev) : ev[i].op = "requests.get" /\ ev[i].by = by}
FailingSlots(s, f) ==
    {i \in 1..3 : s.fields[Slots[i]] \notin KnownNames \/ f[i] # "ok"}
(* the image requests due: one per slot up to the first failing slot, that *)
(* slot included only when its name passes the lookup                      *)
ImageRequestsDue(s, f) ==
    IF FailingSlots(s, f) = {} THEN 3
    ELSE LET k == CHOOSE i \in FailingSlots(s, f) :
                      \A j \in FailingSlots(s, f) : i <= j
         IN  IF s.fields[Slots[k]] \in KnownNames THEN k ELSE k - 1

(* C16: a pass issues exactly one info fetch, as its first call, and at    *)
(* most one image request per emoji slot; it issues no image request when  *)
(* the fetch or the validation fails or no Render Cycle runs, and none     *)
(* for a slot after the first slot whose resolution fails.                 *)
C16_NoRetryWithinIteration ==
    events # <<>> =>
        /\ Requests(events, "get_info") = {1}
        /\ Cardinality(Requests(events, "get_image")) <= NumCalls(events, "get_image")
        /\ NumCalls(events, "get_image") <= 3
        /\ \A i \in Requests(events, "get_image") :
              events[i - 1].op = "get_image"
        /\ Cardinality(Requests(events, "get_image")) =
              IF Valid(resp) /\ RenderCycleRun(events)
              THEN ImageRequestsDue(resp, plan) ELSE 0

C16_Witness ==
    /\ pc = "sleep" /\ Valid(resp) /\ RenderCycleRun(events)
    /\ resp.fields["a"] \in KnownNames /\ plan[1] = "http_error"
    /\ raised = Exc("EOTDException", "Error when contacting emoji API.")
    /\ Cardinality(Requests(events, "get_image")) = 1
    /\ NumCalls(events, "get_image") = 1

(* The driver class each value of --display stands for *)
BackendFor(arg) == IF arg = "epd2in13" THEN "EPD2in13bcDriver" ELSE "TkinterDriver"

(* C17: once startup is over, the driver of the chosen --display value has *)
(* been entered and cleared, nothing was shown before the clear, the       *)
(* polling loop runs on it, and the driver is exited exactly when the      *)
(* program has ended.  (Violated: with --display epd2in13 the program ends *)
(* with a NameError and no driver was ever entered.)                       *)
C17_StartupAcquiresBackend ==
    pc # "main" =>
        /\ driver.kind = BackendFor(display_arg)
        /\ driver.entered /\ driver.cleared
        /\ driver.exited <=> pc = "terminated"
        /\ raised.type # "NameError"

(* C18: at every sleep with the error flag clear, either the bitmap last   *)
(* shown is the main layout rendered from the stored snapshot, or nothing  *)
(* was shown yet and the stored snapshot is the initial empty one; and a   *)
(* pass that starts with the error flag set and fetches the snapshot that  *)
(* is already stored, all image resolutions succeeding, redraws.           *)
C18_DisplayNeverStale ==
    /\ (pc = "sleep" /\ ~error) =>
          \/ /\ Resolvable(info, AllOk)
             /\ layout = LayoutOf(info)
             /\ shown = draw(LayoutOf(info))
          \/ shown = NothingShown /\ info = Dict(EmptyDict)
    /\ (pc = "sleep" /\ hist.was_error /\ ~hist.differed /\ Resolvable(resp, plan)) =>
          /\ OneRedraw(events) /\ ~error
          /\ info = resp /\ shown = draw(LayoutOf(resp))

C18_Witness ==
    /\ pc = "sleep" /\ hist.was_error /\ ~hist.differed /\ Resolvable(resp, plan)
    /\ ~error /\ info = resp /\ OneRedraw(events)
    /\ shown = draw(LayoutOf(info))

(* The pass showed the main layout *)
MainLayoutShown(ev) ==
    \E i \in 1..Len(ev) : ev[i].op = "show" /\ ev[i].arg = "_layout"

(* C19: a pass that shows the main layout shows it with the three images   *)
(* and the message of the stored snapshot, which is the one just fetched;  *)
(* and whatever the backend shows is nothing, the error layout, or the     *)
(* main layout rendered whole from one snapshot, never a main layout that  *)
(* a failed Render Cycle left partly updated.                              *)
C19_ShownLayoutFromOneSnapshot ==
    /\ MainLayoutShown(events) =>
          /\ Resolvable(info, AllOk) /\ info = resp
          /\ layout = LayoutOf(info)
          /\ shown = draw(LayoutOf(info))
    /\ \/ shown = NothingShown
       \/ shown = draw(error_layout)
       \/ \E s \in ResolvableSnapshots : shown = draw(LayoutOf(s))

C19_Witness ==
    /\ pc = "sleep" /\ hist.was_error /\ hist.differed
    /\ MainLayoutShown(events)
    /\ info = resp /\ shown = draw(LayoutOf(info))

(* a failed Render Cycle has left the main layout partly updated and the   *)
(* backend shows the error layout                                          *)
C19_PartlyUpdatedNotShown ==
    /\ pc = "sleep" /\ error
    /\ layout[<<0, 0>>].content # BlankImage
    /\ layout[<<4, 0>>].content = BlankImage
    /\ shown = draw(error_layout)

(* components has the positions of init, and each component is the one of  *)
(* init in everything but its content                                      *)
InPlace(components, init) ==
    /\ DOMAIN components = DOMAIN init
    /\ \A p \in DOMAIN init :
          [components[p] EXCEPT !.content = init[p].content] = init[p]

(* C20: after every step the main layout has the positions (0,0), (4,0),   *)
(* (8,0), (0,10) and the error layout (0,0), (0,6), each component being   *)
(* the one built at construction in everything but its content, and the    *)
(* heading of the error layout is unchanged; a pass without a Render Cycle *)
(* leaves the main layout as it was, a pass without a Render Error View    *)
(* leaves the error layout as it was, and a Render Error View changes the  *)
(* error layout only in the text at (0,6), set to the description.         *)
C20_MutatedInPlace ==
    [][/\ DOMAIN layout' = {<<0, 0>>, <<4, 0>>, <<8, 0>>, <<0, 10>>}
       /\ DOMAIN error_layout' = {<<0, 0>>, <<0, 6>>}
       /\ InPlace(layout', InitLayout)
       /\ InPlace(error_layout', InitErrorLayout)
       /\ error_layout'[<<0, 0>>] = InitErrorLayout[<<0, 0>>]
       /\ NumCalls(events', "display_emoji") = 0 => layout' = layout
       /\ NumCalls(events', "_display_error") = 0 => error_layout' = error_layout
       /\ (pc = "loop" /\ NumCalls(events', "_display_error") = 1) =>
             error_layout' = [error_layout EXCEPT ![<<0, 6>>].content = raised'.msg]]_vars

C20_Witness ==
    /\ pc = "sleep" /\ error
    /\ NumCalls(events, "display_emoji") = 1 /\ NumCalls(events, "_display_error") = 1
    /\ layout # InitLayout /\ InPlace(layout, InitLayout)
    /\ error_layout # InitErrorLayout /\ InPlace(error_layout, InitErrorLayout)
    /\ error_layout[<<0, 0>>].content = "An error occurred."

====
